---- MODULE Spec2Model ----
(***************************************************************************)
(* A model of josephvusich/localdb: the transaction wrapper DB.WrapTx,     *)
(* the prepared-statement cache StmtCache (Prepare, Stmt.Close, Close),    *)
(* schema registration (NewSqlSchema, DefineUpgrade) and Open with its     *)
(* open-time upgrade (initDB, SqlSchema.Upgrade, the version stores).      *)
(*                                                                         *)
(* SpecTx    : concurrent invocations of DB.WrapTx, one step per call the  *)
(*             wrapper makes into the driver or into the work function.    *)
(* SpecCache : concurrent StmtCache.Prepare / Stmt.Close callers and a     *)
(*             serialized StmtCache.Close, one step per atomic sync.Map /  *)
(*             sync.Once / driver operation.                               *)
(* SpecOpen  : sequential Open calls on one database file, one step per    *)
(*             call into the version store or the driver, with reads on    *)
(*             the session and DB.Close between them.                      *)
(* SpecSchema: DefineUpgrade calls on a schema fresh from NewSqlSchema.    *)
(* SpecSession: DefineUpgrade calls between the Open calls of one program. *)
(* SpecName  : backupFilename applied to a file path, a backup directory   *)
(*             and a schema.                                               *)
(***************************************************************************)
EXTENDS Integers, Sequences, FiniteSets, TLC

\* ------------------------------------------------------------------ bounds

\* Number of goroutines that call DB.WrapTx.
NumTxCallers == 2

\* Number of goroutines that use the StmtCache.
NumCallers == 2

\* Number of statements the preparer may create in one run.
MaxStmts == 2

\* Most versions a schema is given in one run, the root script included.
MaxVersions == 3

\* Number of Open calls in one run.
MaxOpens == 2

TxCallers == 1..NumTxCallers

Callers == 1..NumCallers

\* The query texts passed to Prepare.
Queries == {"q1", "q2"}

\* No query text.
NoQuery == "none"

Stmts == 1..MaxStmts

\* The root scripts passed to NewSqlSchema.
Roots == {"CREATE TABLE t ( foo TEXT, bar NUMERIC )", "123456789"}

\* The upgrade scripts passed to DefineUpgrade.
Scripts == {"\nALTER TABLE t RENAME TO p;\nALTER TABLE p ADD COLUMN extra TEXT;\n", "ALTER TABLE p ADD COLUMN more TEXT"}

\* The user_version values a file or a fallback reader may hold.
StoredVersions == (-1)..MaxVersions

\* OpenOptions.BackupDir: empty, or a directory.
BackupDirs == {"", "bar"}

\* OpenOptions.VersionStorer: unset, or one of the two stores.
VersionStorerOptions == {"nil", "SqliteVersion", "FallbackVersion"}

\* ---------------------------------------------------------- common values

\* Go's nil error.
Nil == "nil"

\* The error values the driver or the work function may produce.
Errors == {"e1", "e2"}

\* The values a panic may carry that do not come from the driver.
WorkPanics == {"p1"}

\* var errDetectPanic = errors.New("this should never happen")
errDetectPanic == "errDetectPanic"

\* The dynamic type of the fn argument of WrapTx.
FnSignatures == {"func(Handle) error", "func(sqlx.Ext) error", "other"}

\* No statement / absent map entry.
None == 0

VARIABLES tx, cache, stmts, callers, range, hist, schema, reg, file, open, db, fb, bf

txVars == <<tx>>

cacheVars == <<cache, stmts, callers, range, hist>>

openVars == <<schema, reg, file, open, db, fb>>

nameVars == <<bf>>

vars == <<tx, cache, stmts, callers, range, hist, schema, reg, file, open, db, fb, bf>>

\* ================================================================ WrapTx

\* The state of one WrapTx invocation before it is made.
\*   pc        : where the invocation is
\*   once      : whether the sync.Once declared after Beginx has fired
\*   err       : the local variable err
\*   panicking : the value of the panic in flight, or Nil
\*   out       : how control left WrapTx, once pc = "done"
\* and what the invocation did so far (begun, workRes, commits, ...).
TxIdle == [pc |-> "idle", once |-> FALSE, err |-> Nil, panicking |-> Nil, out |-> <<"none", Nil>>, sig |-> "none", beginRes |-> "none", begun |-> FALSE, works |-> 0, workRes |-> "none", commits |-> 0, commitRes |-> "none", rollbacks |-> 0, rollbackRes |-> "none"]

\* The fn.(type) switch: whether fn has one of the two accepted signatures.
ValidSignature(sig) == sig \in {"func(Handle) error", "func(sqlx.Ext) error"}

OnceDoAlways(done) == TRUE

\* sync.Once.Do(f): f runs only on the first Do of this Once.
OnceDo(done) == ~done

WorkFailedNever(res) == FALSE

\* `if err = f(tx); err != nil { return err }`
WorkFailed(res) == res # Nil

RollbackFailureIgnored(res) == FALSE

\* `if err := tx.Rollback(); err != nil { panic(err) }`
RollbackPanics(res) == res # Nil

CommitResultDropped(res) == Nil

\* `err = tx.Commit()` inside once.Do, then `return err`.
CommitResult(res) == res

BeginFailureIgnored(res) == FALSE

\* `tx, err := d.root.Beginx(); if err != nil { return err }`
BeginFailed(res) == res # Nil

\* WrapTx up to and including d.root.Beginx(): an unaccepted signature panics
\* before a transaction is begun; a failed Beginx returns its error; otherwise
\* the rollback is armed (defer once.Do) and the work function is next.
WrapTxCall(t, sig, beginRes) ==
    /\ tx[t].pc \in {"idle", "done"}
    /\ tx' = [tx EXCEPT ![t] =
                IF ~ValidSignature(sig)
                THEN [TxIdle EXCEPT !.pc = "done", !.sig = sig, !.out = <<"panic", "invalid function signature passed to WrapTx">>]
                ELSE IF BeginFailed(beginRes)
                THEN [TxIdle EXCEPT !.pc = "done", !.sig = sig, !.beginRes = beginRes, !.err = beginRes, !.out = <<"return", beginRes>>]
                ELSE [TxIdle EXCEPT !.pc = "work", !.sig = sig, !.beginRes = beginRes, !.begun = TRUE]]
    /\ UNCHANGED <<cacheVars, openVars, nameVars>>

\* f(tx): the work function returns nil, returns an error, or panics.
WrapTxWork(t, res, panicVal) ==
    /\ tx[t].pc = "work"
    /\ tx' = [tx EXCEPT ![t] =
                IF panicVal # Nil
                THEN [@ EXCEPT !.pc = "defer", !.works = @ + 1, !.workRes = "panic", !.panicking = panicVal]
                ELSE IF WorkFailed(res)
                THEN [@ EXCEPT !.pc = "defer", !.works = @ + 1, !.workRes = res, !.err = res]
                ELSE [@ EXCEPT !.pc = "commit", !.works = @ + 1, !.workRes = res, !.err = res]]
    /\ UNCHANGED <<cacheVars, openVars, nameVars>>

\* err = errDetectPanic; once.Do(func() { err = tx.Commit() });
\* if errors.Is(err, errDetectPanic) { panic("logic error") }; return err
WrapTxCommit(t, commitRes) ==
    /\ tx[t].pc = "commit"
    /\ tx' = [tx EXCEPT ![t] =
                IF OnceDo(tx[t].once)
                THEN [@ EXCEPT !.pc = "defer", !.once = TRUE, !.commits = @ + 1, !.commitRes = commitRes, !.err = CommitResult(commitRes)]
                ELSE [@ EXCEPT !.pc = "defer", !.err = errDetectPanic, !.panicking = "logic error"]]
    /\ UNCHANGED <<cacheVars, openVars, nameVars>>

\* The deferred once.Do(func() { if err := tx.Rollback(); err != nil {
\* panic(err) } }), run as control leaves WrapTx by return or by panic.  A
\* panic raised here replaces the one in flight.
WrapTxDeferred(t, rollbackRes) ==
    /\ tx[t].pc = "defer"
    /\ tx' = [tx EXCEPT ![t] =
                IF OnceDo(tx[t].once)
                THEN [@ EXCEPT !.pc = "done", !.once = TRUE, !.rollbacks = @ + 1, !.rollbackRes = rollbackRes,
                               !.panicking = IF RollbackPanics(rollbackRes) THEN rollbackRes ELSE @,
                               !.out = IF RollbackPanics(rollbackRes) THEN <<"panic", rollbackRes>>
                                       ELSE IF tx[t].panicking # Nil THEN <<"panic", tx[t].panicking>>
                                       ELSE <<"return", tx[t].err>>]
                ELSE [@ EXCEPT !.pc = "done",
                               !.out = IF tx[t].panicking # Nil THEN <<"panic", tx[t].panicking>>
                                       ELSE <<"return", tx[t].err>>]]
    /\ UNCHANGED <<cacheVars, openVars, nameVars>>

TxInit == tx = [t \in TxCallers |-> TxIdle]

TxNext ==
    \/ \E t \in TxCallers, sig \in FnSignatures, b \in {Nil} \cup Errors : WrapTxCall(t, sig, b)
    \/ \E t \in TxCallers, r \in {Nil} \cup Errors, p \in {Nil} \cup WorkPanics : WrapTxWork(t, r, p)
    \/ \E t \in TxCallers, r \in {Nil} \cup Errors : WrapTxCommit(t, r)
    \/ \E t \in TxCallers, r \in {Nil} \cup Errors : WrapTxDeferred(t, r)

\* ============================================================= StmtCache

\* A caller that is not inside any StmtCache operation.
\*   pc      : "idle", "pCalc" (Prepare, before the calculator), "pStore"
\*             (Prepare, before LoadOrStore), "closerEnter"
\*             (before once.Do of a closer), "closerCAD" (before
\*             CompareAndDelete), "closerClose" (before stmt.Close), "range"
\*             (inside cache.Range of StmtCache.Close)
\*   ctx     : the call the caller is in: "prepare", "stmtclose", "cacheclose"
\*   query, fresh, cached : the locals of loadOrCalculate
\*   closing : the Stmt whose closer the caller runs
\*   lost    : the Prepare call lost LoadOrStore to another caller
\*   overlap : the Prepare call ran while a Stmt.Close of its query text was
\*             running
\*   doneAtStart : the statements of the call's query text whose Close had
\*             completed when the call began
IdleCaller == [pc |-> "idle", ctx |-> "none", query |-> NoQuery, fresh |-> None, cached |-> None, closing |-> None, lost |-> FALSE, overlap |-> FALSE, doneAtStart |-> {}]

\* StmtCache.Close when it is not running.
\*   left    : the keys cache.Range has still to visit
\*   snap    : the map as it was when Range began
\*   key     : the key of the visit in progress
\*   allErrs : the named result allErrs, a set of wrapped errors (nil = {})
\*   failed  : the keys whose statement failed to close in this call
IdleRange == [pc |-> "idle", left |-> {}, snap |-> [q \in Queries |-> None], key |-> NoQuery, allErrs |-> {}, failed |-> {}]

\* The call that has just returned, with what held at the moment it returned.
\*   op, kind, val : the call and its result: <<"stmt", s>> or <<"err", e>>
\*                   for Prepare, <<"err", e>> or <<"nil", None>> for
\*                   Stmt.Close, <<"errs", allErrs>> for StmtCache.Close
\*   first    : the Stmt.Close call was the one whose once.Do ran the closer
\*   closeErr : what fresh.Close() returned to a Prepare call that lost
\*   afterClose : Prepare began after the Close of a statement of its query
\*              text, one that Prepare had returned, had completed
\*   stale    : Prepare returned a statement whose Close had completed before
\*              the call began
\*   recycled : Prepare returned a statement that was cached when an earlier
\*              StmtCache.Close began
\*   cacheEmpty, cachedAtStart, unclosed, untouched, failed :
\*              at the return of StmtCache.Close: whether the map was empty,
\*              the statements cached when it began, those of them whose
\*              prepared statement was not closed yet, those of them no
\*              closer had been entered for, the keys whose close failed
NoCall == [op |-> "none", kind |-> "none", val |-> None, first |-> FALSE, query |-> NoQuery, lost |-> FALSE, fresh |-> None, cached |-> None, closeErr |-> "none", stale |-> FALSE, afterClose |-> FALSE, recycled |-> FALSE, cacheEmpty |-> TRUE, cachedAtStart |-> {}, unclosed |-> {}, untouched |-> {}, failed |-> {}]

\* What has been observed of the cache so far.
\*   handed      : the statements Prepare has returned to callers
\*   epochRet    : per query text, the statements returned by Prepare calls
\*                 since the last Stmt.Close of that text or StmtCache.Close
\*   rets        : per query text, how many Prepare calls returned a statement
\*                 since (counted up to 2)
\*   stores      : per query text, the LoadOrStore calls that stored since
\*   cacheClosed : the statements that were cached when a StmtCache.Close began
\*   last        : the call that returned in the last step, if one did
HistInit == [handed |-> {}, epochRet |-> [q \in Queries |-> {}], rets |-> [q \in Queries |-> 0], stores |-> [q \in Queries |-> 0], cacheClosed |-> {}, last |-> NoCall]

\* The statement ids created so far.
Created == 1..Len(stmts)

\* A caller is inside StmtCache.Prepare.
InPrepare(cr) == cr.ctx = "prepare"

\* A Stmt.Close call on a statement of query text q, or a StmtCache.Close, is
\* running in the state (cs, rg, st).
CloseActiveIn(q, cs, rg, st) ==
    \/ rg.pc # "idle"
    \/ \E c \in Callers : cs[c].ctx = "stmtclose" /\ st[cs[c].closing].query = q

\* A step in which no call returns: the record of the last return is only
\* kept in the state that the return leads to.
NoReturn(h) == [h EXCEPT !.last = NoCall]

\* Bookkeeping of the observations, after every step.
Mark(cs, rg, st) ==
    [c \in Callers |-> IF InPrepare(cs[c]) /\ CloseActiveIn(cs[c].query, cs, rg, st)
                       THEN [cs[c] EXCEPT !.overlap = TRUE] ELSE cs[c]]

Settle(h, cs, rg, st) ==
    [h EXCEPT !.epochRet = [q \in Queries |-> IF CloseActiveIn(q, cs, rg, st) THEN {} ELSE h.epochRet[q]],
              !.rets = [q \in Queries |-> IF CloseActiveIn(q, cs, rg, st) THEN 0 ELSE h.rets[q]],
              !.stores = [q \in Queries |-> IF CloseActiveIn(q, cs, rg, st) THEN 0 ELSE h.stores[q]]]

Step(nc, ns, ncl, nr, nh) ==
    /\ cache' = nc
    /\ stmts' = ns
    /\ range' = nr
    /\ callers' = Mark(ncl, nr, ns)
    /\ hist' = Settle(nh, ncl, nr, ns)
    /\ UNCHANGED <<txVars, openVars, nameVars>>

\* --- sync.Map primitives ---

\* cache.Load(key): the value, or None when absent.
Load(m, k) == m[k]

LoadOrStoreOverwrites(m, k, v) == [map |-> [m EXCEPT ![k] = v], actual |-> v, loaded |-> FALSE]

\* cache.LoadOrStore(key, value): the existing value if present (loaded),
\* otherwise stores value and returns it.
LoadOrStore(m, k, v) ==
    IF m[k] # None
    THEN [map |-> m, actual |-> m[k], loaded |-> TRUE]
    ELSE [map |-> [m EXCEPT ![k] = v], actual |-> v, loaded |-> FALSE]

DeleteWithoutCompare(m, k, v) == [m EXCEPT ![k] = None]

CompareAndDeleteNever(m, k, v) == m

\* cache.CompareAndDelete(key, old): deletes the entry only if its value is old.
CompareAndDelete(m, k, v) == IF m[k] = v THEN [m EXCEPT ![k] = None] ELSE m

\* cache.Delete(key)
Delete(m, k) == [m EXCEPT ![k] = None]

\* --- errors ---

\* fmt.Errorf("error closing `%s': %w", key, err)
Errorf(key, err) == {<<key, err>>}

\* errors.Join(errs...): nil values are discarded; the result wraps the rest.
ErrorsJoin(errs) == UNION {errs[i] : i \in 1..Len(errs)}

\* allErrs = errors.Join(fmt.Errorf("error closing `%s': %w", key, err))
CollectCloseError(prev, key, err) == ErrorsJoin(<<Errorf(key, err)>>)

RangeStopsOnError(err) == err = Nil

\* The Range callback ends with `return true`: the iteration goes on
\* whatever value.Close() returned.
RangeContinues(err) == TRUE

\* --- StmtCache.Prepare / loadOrCalculate ---

\* What the return of Prepare leaves in the observations.
PrepareReturns(cr, h, res, closeErr) ==
    [h EXCEPT !.handed = IF res[1] = "stmt" THEN @ \cup {res[2]} ELSE @,
              !.epochRet[cr.query] = IF res[1] = "stmt" /\ ~cr.overlap THEN @ \cup {res[2]} ELSE @,
              !.rets[cr.query] = IF res[1] = "stmt" /\ ~cr.overlap /\ @ < 2 THEN @ + 1 ELSE @,
              !.last = [NoCall EXCEPT !.op = "prepare", !.kind = res[1], !.val = res[2], !.query = cr.query,
                                      !.lost = cr.lost, !.fresh = cr.fresh, !.cached = cr.cached, !.closeErr = closeErr,
                                      !.afterClose = \E s \in cr.doneAtStart : stmts[s].query = cr.query /\ s \in h.handed,
                                      !.stale = res[1] = "stmt" /\ res[2] \in cr.doneAtStart,
                                      !.recycled = res[1] = "stmt" /\ res[2] \in h.cacheClosed]]

LoserReturnsFresh(cr, closeErr) == <<"stmt", cr.fresh>>

\* if loaded { if err = fresh.Close(); err != nil { return value, err } }
\* return cached.(T), nil
LoserResult(cr, closeErr) == IF closeErr # Nil THEN <<"err", closeErr>> ELSE <<"stmt", cr.cached>>

\* Prepare(query) up to cache.Load(input) in loadOrCalculate: a hit returns
\* the cached Stmt; on a miss the calculator is called next.
PrepareCall(c, q) ==
    /\ callers[c].pc = "idle"
    /\ range.pc = "idle"
    /\ LET cr == [IdleCaller EXCEPT !.ctx = "prepare", !.query = q, !.doneAtStart = {s \in Created : stmts[s].once = "done" /\ stmts[s].query = q}]
       IN  IF Load(cache, q) # None
           THEN Step(cache, stmts, callers, range, PrepareReturns(cr, hist, <<"stmt", Load(cache, q)>>, "none"))
           ELSE Step(cache, stmts, [callers EXCEPT ![c] = [cr EXCEPT !.pc = "pCalc"]], range, NoReturn(hist))

\* fresh, err := calculator(input): h.preparer(query) fails, and Prepare
\* returns its error, or yields a prepared statement that is wrapped in a
\* new Stmt with its own sync.Once.  The new Stmt is private to the caller
\* until LoadOrStore.
PrepareCalculate(c, prepErr) ==
    /\ callers[c].pc = "pCalc"
    /\ LET cr == callers[c]
       IN  IF prepErr # Nil
           THEN Step(cache, stmts, [callers EXCEPT ![c] = IdleCaller], range,
                     PrepareReturns(cr, hist, <<"err", prepErr>>, "none"))
           ELSE /\ Len(stmts) < MaxStmts
                /\ Step(cache,
                        Append(stmts, [query |-> cr.query, once |-> "idle", closes |-> 0, cads |-> 0]),
                        [callers EXCEPT ![c] = [cr EXCEPT !.pc = "pStore", !.fresh = Len(stmts) + 1]],
                        range, NoReturn(hist))

\* cached, loaded := cache.LoadOrStore(input, fresh): the winner returns its
\* fresh statement; a loser calls fresh.Close(), whose once.Do runs the
\* closer (no other caller holds fresh, so its Once has not fired).
PrepareStore(c) ==
    /\ callers[c].pc = "pStore"
    /\ LET cr == callers[c]
           r == LoadOrStore(cache, cr.query, cr.fresh)
       IN  IF r.loaded
           THEN Step(r.map, [stmts EXCEPT ![cr.fresh].once = "running"],
                     [callers EXCEPT ![c] = [cr EXCEPT !.pc = "closerCAD", !.closing = cr.fresh, !.cached = r.actual, !.lost = TRUE]],
                     range, NoReturn(hist))
           ELSE Step(r.map, stmts, [callers EXCEPT ![c] = IdleCaller], range,
                     PrepareReturns(cr, [hist EXCEPT !.stores[cr.query] = @ + 1], <<"stmt", r.actual>>, "none"))

\* --- Stmt.Close: the closer built by Prepare ---

OnceRunsEveryTime(once) == TRUE

\* `var once sync.Once` of a Stmt's closer: once.Do(f) runs f only in the
\* first call.
OnceRuns(once) == once = "idle"

\* What the return of Stmt.Close leaves in the observations: a Stmt.Close of
\* this query text has intervened.
StmtCloseReturns(h, s, err) ==
    [h EXCEPT !.epochRet[stmts[s].query] = {},
              !.rets[stmts[s].query] = 0,
              !.stores[stmts[s].query] = 0,
              !.last = [NoCall EXCEPT !.op = "stmtclose", !.kind = IF err = Nil THEN "nil" ELSE "err", !.val = err, !.query = stmts[s].query, !.cached = s]]

\* The closer returns err to whoever called it: Prepare's loser path
\* (loadOrCalculate), a caller's Stmt.Close, or the Range callback of
\* StmtCache.Close, which records a failure in allErrs and goes on.
CloserReturns(c, err, nc, ns) ==
    LET cr == callers[c]
    IN  CASE cr.ctx = "prepare" ->
               Step(nc, ns, [callers EXCEPT ![c] = IdleCaller], range, PrepareReturns(cr, hist, LoserResult(cr, err), err))
          [] cr.ctx = "stmtclose" ->
               Step(nc, ns, [callers EXCEPT ![c] = IdleCaller], range,
                    [StmtCloseReturns(hist, cr.closing, err) EXCEPT !.last.first = TRUE])
          [] cr.ctx = "cacheclose" ->
               Step(nc, ns, [callers EXCEPT ![c] = [cr EXCEPT !.pc = "range", !.closing = None]],
                    [range EXCEPT !.allErrs = IF err # Nil THEN CollectCloseError(@, range.key, err) ELSE @,
                                  !.failed = IF err # Nil THEN @ \cup {range.key} ELSE @,
                                  !.left = IF RangeContinues(err) THEN @ ELSE {}],
                    NoReturn(hist))

\* s.Close() by a caller holding s, a Stmt that Prepare returned, up to
\* once.Do: the first call runs the closer; a call made while the closer runs
\* waits for it; a later call returns at once with err still nil.
StmtCloseCall(c, s) ==
    /\ callers[c].pc = "idle"
    /\ s \in hist.handed
    /\ stmts[s].once # "running"
    /\ IF OnceRuns(stmts[s].once)
       THEN Step(cache, [stmts EXCEPT ![s].once = "running"],
                 [callers EXCEPT ![c] = [IdleCaller EXCEPT !.pc = "closerCAD", !.ctx = "stmtclose", !.closing = s]], range, NoReturn(hist))
       ELSE Step(cache, stmts,
                 [d \in Callers |-> IF InPrepare(callers[d]) /\ callers[d].query = stmts[s].query
                                    THEN [callers[d] EXCEPT !.overlap = TRUE] ELSE callers[d]],
                 range, StmtCloseReturns(hist, s, Nil))

\* value.(*Stmt).Close() in the Range callback, up to once.Do.
CloserEnter(c) ==
    /\ callers[c].pc = "closerEnter"
    /\ LET s == callers[c].closing
       IN  /\ stmts[s].once # "running"
           /\ IF OnceRuns(stmts[s].once)
              THEN Step(cache, [stmts EXCEPT ![s].once = "running"], [callers EXCEPT ![c].pc = "closerCAD"], range, NoReturn(hist))
              ELSE CloserReturns(c, Nil, cache, stmts)

\* h.cache.CompareAndDelete(query, result)
CloserCAD(c) ==
    /\ callers[c].pc = "closerCAD"
    /\ LET s == callers[c].closing
       IN  Step(CompareAndDelete(cache, stmts[s].query, s), [stmts EXCEPT ![s].cads = @ + 1],
                [callers EXCEPT ![c].pc = "closerClose"], range, NoReturn(hist))

\* err = stmt.Close(), the end of once.Do, and the closer's return.
CloserClose(c, closeErr) ==
    /\ callers[c].pc = "closerClose"
    /\ LET s == callers[c].closing
       IN  CloserReturns(c, closeErr, cache, [stmts EXCEPT ![s].once = "done", ![s].closes = @ + 1])

\* --- StmtCache.Close ---

\* h.cache.Range begins.  Calling Prepare while Close runs is undefined
\* behaviour by the doc comment, and callers serialize the two: Close does not
\* begin while a Prepare is running, nor Prepare while Close is.
CacheCloseCall(c) ==
    /\ callers[c].pc = "idle"
    /\ range.pc = "idle"
    /\ \A d \in Callers : ~InPrepare(callers[d])
    /\ Step(cache, stmts,
            [callers EXCEPT ![c] = [IdleCaller EXCEPT !.pc = "range", !.ctx = "cacheclose"]],
            [IdleRange EXCEPT !.pc = "running", !.left = {q \in Queries : cache[q] # None}, !.snap = cache],
            [hist EXCEPT !.cacheClosed = @ \cup ({cache[q] : q \in Queries} \ {None}), !.last = NoCall])

\* One iteration of Range: func(key, value) { h.cache.Delete(key);
\* value.(*Stmt).Close() ... }.  A key deleted by a concurrent Stmt.Close
\* since Range began is either skipped or still visited with the value it had
\* (sync.Map.Range reflects any mapping of the key during the call).
RangeVisit(c, k, visit) ==
    /\ callers[c].pc = "range"
    /\ k \in range.left
    /\ visit \/ cache[k] = None
    /\ IF visit
       THEN Step(Delete(cache, k), stmts,
                 [callers EXCEPT ![c] = [@ EXCEPT !.pc = "closerEnter", !.closing = range.snap[k]]],
                 [range EXCEPT !.left = @ \ {k}, !.key = k], NoReturn(hist))
       ELSE Step(cache, stmts, callers, [range EXCEPT !.left = @ \ {k}], NoReturn(hist))

\* Range is over: return allErrs.
CacheCloseReturn(c) ==
    /\ callers[c].pc = "range"
    /\ range.left = {}
    /\ LET was == {range.snap[q] : q \in Queries} \ {None}
       IN  Step(cache, stmts, [callers EXCEPT ![c] = IdleCaller], IdleRange,
                [hist EXCEPT !.last = [NoCall EXCEPT !.op = "cacheclose", !.kind = "errs", !.val = range.allErrs,
                                                     !.cacheEmpty = \A q \in Queries : cache[q] = None,
                                                     !.cachedAtStart = was,
                                                     !.unclosed = {s \in was : stmts[s].closes = 0},
                                                     !.untouched = {s \in was : stmts[s].once = "idle"},
                                                     !.failed = range.failed]])

CacheInit ==
    /\ cache = [q \in Queries |-> None]
    /\ stmts = <<>>
    /\ callers = [c \in Callers |-> IdleCaller]
    /\ range = IdleRange
    /\ hist = HistInit

CacheNext ==
    \/ \E c \in Callers, q \in Queries : PrepareCall(c, q)
    \/ \E c \in Callers, e \in {Nil, "e1"} : PrepareCalculate(c, e)
    \/ \E c \in Callers : PrepareStore(c)
    \/ \E c \in Callers, s \in Stmts : StmtCloseCall(c, s)
    \/ \E c \in Callers : CloserEnter(c)
    \/ \E c \in Callers : CloserCAD(c)
    \/ \E c \in Callers, e \in {Nil, "e1"} : CloserClose(c, e)
    \/ \E c \in Callers : CacheCloseCall(c)
    \/ \E c \in Callers, k \in Queries, v \in BOOLEAN : RangeVisit(c, k, v)
    \/ \E c \in Callers : CacheCloseReturn(c)

\* ======================================================= SqlSchema and Open

\* NewSqlSchema's ID for the root scripts of Roots:
\* int32(crc32.Checksum([]byte(rootSchema), crc32cTable)), the CRC-32C
\* (Castagnoli) checksum reinterpreted as a signed 32-bit integer
\* (0x392ACC31 and 0xE3069283).
Crc32cInt32(rootSchema) ==
    CASE rootSchema = "CREATE TABLE t ( foo TEXT, bar NUMERIC )" -> 959106097
      [] rootSchema = "123456789" -> -486108541

\* NewSqlSchema(rootSchema): the root script is version 1.
NewSqlSchema(rootSchema) == [ID |-> Crc32cInt32(rootSchema), versions |-> <<rootSchema>>]

\* The application_id values a file or a fallback reader may hold: none, and
\* the IDs of the schemas of Roots.
StoredIds == {0} \cup {NewSqlSchema(rootSchema).ID : rootSchema \in Roots}

\* func (s *SqlSchema) ApplicationID() int32
ApplicationID(s) == s.ID

\* func (s *SqlSchema) LatestVersion() int32 { return int32(len(s.versions)) }
LatestVersion(s) == Len(s.versions)

CopyReturnsReceiver(s) == [ID |-> s.ID, versions |-> s.versions, own |-> FALSE]

\* func (s *SqlSchema) Copy() Schema: a new SqlSchema (own) with the ID and
\* a new slice holding the same scripts.
Copy(s) == [ID |-> s.ID, versions |-> [k \in 1..Len(s.versions) |-> s.versions[k]], own |-> TRUE]

\* The schema a session reads through d.schema: the SqlSchema of its own
\* that Copy made, or, were d.schema the registering program's SqlSchema
\* itself, that one as it is now.
SessionSchema(d, s) == IF d.schema.own THEN [ID |-> d.schema.ID, versions |-> d.schema.versions] ELSE s

DefineAcceptsAny(s, newVersion) == TRUE

\* `if len(s.versions)+1 != newVersion { panic(...) }`
DefineAccepts(s, newVersion) == Len(s.versions) + 1 = newVersion

\* `s.versions = append(s.versions, newSchema)`
Defined(s, newSchema) == [s EXCEPT !.versions = Append(@, newSchema)]

\* The script a program registers for version v.
UpgradeScript(v) ==
    IF v % 2 = 0 THEN "\nALTER TABLE t RENAME TO p;\nALTER TABLE p ADD COLUMN extra TEXT;\n"
    ELSE "ALTER TABLE p ADD COLUMN more TEXT"

\* The schema of a program that called NewSqlSchema(rootSchema) and then
\* DefineUpgrade(2, ..) up to DefineUpgrade(n, ..).
RECURSIVE Registered(_, _)
Registered(rootSchema, n) ==
    IF n <= 1 THEN NewSqlSchema(rootSchema) ELSE Defined(Registered(rootSchema, n - 1), UpgradeScript(n))

UpgradeFromZero(currentVersion) == 0

\* `for i := currentVersion; ...`: the loop starts at the stored version.
UpgradeStart(currentVersion) == currentVersion

LoopContinuesInclusive(i, newVersion) == i <= newVersion

\* `...; i < newVersion; i++`
LoopContinues(i, newVersion) == i < newVersion

\* s.versions[i], with Go's 0-based index.
ScriptAt(s, i) == s.versions[i + 1]

\* Whether s.versions[i] is inside the slice; outside, Go panics.
IndexInRange(s, i) == i >= 0 /\ i < Len(s.versions)

\* The database file: the two header fields SqliteVersion reads and writes
\* with PRAGMA application_id / PRAGMA user_version, and the scripts whose
\* effects the file holds, in the order they were executed.
FreshFile == [appId |-> 0, userVersion |-> 0, effects |-> <<>>]

\* The state of Open before any call.
\*   n         : how many Open calls were made so far
\*   vs        : the VersionStorer initDB uses
\*   id, latest : ApplicationID() and LatestVersion() of options.Schema
\*   pre       : the file as it was when Open was called
\*   txn       : the file as seen inside the upgrade transaction
\*   applicationId, userVersion, i, newVersion : locals of initDB and Upgrade
\*   err, panicking : the error initDB returns / the value of a panic in flight
\*   txOnce    : whether WrapTx's sync.Once has fired
\*   once      : whether Open's sync.Once has fired
\*   begun, commits, rollbacks, closes : what the call did to the driver
\*   executed  : the 0-based indices of the scripts passed to tx.Exec
\*   scriptErr : the error tx.Exec returned for a script, if it did
\*   steps     : the calls made into the driver and the version store for
\*               the upgrade transaction, in the order they were made
\*   consultedId, consultedVersion : the fallback reader was called by initDB
\*   faults    : the driver calls of this Open that returned an error
\*   backupDir : options.BackupDir
\*   backup    : the backup copy this Open made, if it made one
\*   out       : how control left Open: kind "return" with (db, err), or
\*               kind "panic" with the panic value
\*   prev      : of the Open call before this one: its store, schema and
\*               file, whether it returned a session, whether a script
\*               failed in it
NoOut == [kind |-> "none", db |-> "nil", err |-> Nil, panic |-> Nil]

\* No backup copy: none attempted, none written.  Of a copy: the version
\* it precedes, the file's content it holds, and whether the upgrade
\* transaction had begun when it was made.
NoBackup == [attempted |-> FALSE, written |-> FALSE, to |-> 0, content |-> [appId |-> 0, userVersion |-> 0, effects |-> <<>>], inTx |-> FALSE]

NoPrev == [vs |-> "none", id |-> 0, latest |-> 0, pre |-> FreshFile, succeeded |-> FALSE, execFailed |-> FALSE]

OpenIdle == [pc |-> "idle", n |-> 0, vs |-> "none", id |-> 0, latest |-> 0, pre |-> FreshFile, txn |-> FreshFile, applicationId |-> 0, userVersion |-> 0, i |-> 0, newVersion |-> 0, err |-> Nil, panicking |-> Nil, txOnce |-> FALSE, once |-> FALSE, begun |-> FALSE, commits |-> 0, rollbacks |-> 0, closes |-> 0, executed |-> <<>>, scriptErr |-> Nil, steps |-> <<>>, consultedId |-> FALSE, consultedVersion |-> FALSE, faults |-> {}, backupDir |-> "", backup |-> NoBackup, out |-> NoOut, prev |-> NoPrev]

\* What is kept of an Open call when the next one begins.
Summary(o) == [vs |-> o.vs, id |-> o.id, latest |-> o.latest, pre |-> o.pre, succeeded |-> o.out.db # "nil", execFailed |-> "exec" \in o.faults]

\* No read through a version store yet.
NoRead == [field |-> "none", val |-> 0, err |-> Nil, consulted |-> FALSE, primary |-> 0]

\* No session: Open has returned none yet.
NoDB == [conn |-> "none", closes |-> 0, schema |-> [ID |-> 0, versions |-> <<>>, own |-> TRUE], closeErr |-> Nil, read |-> NoRead]

\* fmt.Errorf("error assembling DSN: %w", err)
DSNError(e) == "error assembling DSN: " \o e

\* fmt.Errorf("application_id (%d) does not match schema ID (%d)", ...)
AppIdMismatchError(applicationId, id) ==
    "application_id (" \o ToString(applicationId) \o ") does not match schema ID (" \o ToString(id) \o ")"

\* fmt.Errorf("user_version (%d) is higher than the schema version (%d)", ...)
VersionTooHighError(userVersion, latest) ==
    "user_version (" \o ToString(userVersion) \o ") is higher than the schema version (" \o ToString(latest) \o ")"

\* `vs := options.VersionStorer; if vs == nil { vs = &SqliteVersion{} }`
DefaultStorer(vs) == IF vs = "nil" THEN "SqliteVersion" ELSE vs

FallbackAlways(primary, primErr) == TRUE

\* FallbackVersion.Get*: `if err != nil || v != 0 { return }`, otherwise the
\* fallback reader is called.
FallbackConsulted(primary, primErr) == ~(primErr # Nil \/ primary # 0)

\* vs.GetApplicationId(tx) / vs.GetUserVersion(tx): SqliteVersion returns the
\* PRAGMA's value; FallbackVersion returns the primary's result unless it is
\* 0 without error, and then the fallback reader's.
StoreGet(vs, primary, primErr, fbVal, fbErr) ==
    IF vs = "FallbackVersion" /\ FallbackConsulted(primary, primErr)
    THEN [val |-> fbVal, err |-> fbErr, consulted |-> TRUE]
    ELSE [val |-> primary, err |-> primErr, consulted |-> FALSE]

IdentityAlwaysAccepted(applicationId, id) == FALSE

\* `if applicationId != 0 && applicationId != schema.ApplicationID()`
IdentityMismatch(applicationId, id) == applicationId # 0 /\ applicationId # id

VersionNeverTooHigh(userVersion, latest) == FALSE

\* `if userVersion > schema.LatestVersion()`
VersionTooHigh(userVersion, latest) == userVersion > latest

\* --- schema registration ---

\* No DefineUpgrade call in the last step.
NoDefine == [kind |-> "none", newVersion |-> 0, newSchema |-> "none", before |-> [ID |-> 0, versions |-> <<>>]]

\* s.DefineUpgrade(newVersion, newSchema): panics unless newVersion is the
\* next version; otherwise appends the script.  reg counts the calls that
\* returned and holds the call of the last step.
DefineUpgrade(newVersion, newSchema) ==
    /\ open.pc \in {"idle", "done"}
    /\ IF DefineAccepts(schema, newVersion)
       THEN /\ Len(schema.versions) < MaxVersions
            /\ schema' = Defined(schema, newSchema)
            /\ reg' = [defined |-> reg.defined + 1,
                       last |-> [kind |-> "ok", newVersion |-> newVersion, newSchema |-> newSchema, before |-> schema]]
       ELSE /\ schema' = schema
            /\ reg' = [reg EXCEPT !.last = [kind |-> "panic", newVersion |-> newVersion, newSchema |-> newSchema, before |-> schema]]
    /\ UNCHANGED <<file, open, db, fb, txVars, cacheVars, nameVars>>

\* --- Open ---

\* initDB's work function returns e: WrapTx's deferred rollback is next.
InitFails(o, e) == [o EXCEPT !.pc = "txDefer", !.err = e]

BackupDueWheneverConfigured(backupDir, stored, latest) == backupDir # ""

\* Whether initDB makes a backup copy: a backup directory is configured and
\* the stored version is lower than the schema's latest version.
BackupDue(backupDir, stored, latest) == backupDir # "" /\ stored < latest

\* Open(options) up to the call of initDB: assembleDSN and sqlx.Open may
\* fail, each returning (nil, err) before the deferred close is armed;
\* otherwise the connection is open and the session holds a copy of the
\* schema.  The caller has closed the session of an earlier Open.
OpenCall(vsOpt, backupDir, dsnRes, sqRes) ==
    /\ open.pc \in {"idle", "done"}
    /\ open.n < MaxOpens
    /\ db.conn # "open"
    /\ LET o == [OpenIdle EXCEPT !.n = open.n + 1, !.vs = DefaultStorer(vsOpt), !.id = ApplicationID(schema),
                                 !.latest = LatestVersion(schema), !.pre = file, !.txn = file,
                                 !.backupDir = backupDir,
                                 !.prev = Summary(open)]
       IN  IF dsnRes # Nil
           THEN /\ open' = [o EXCEPT !.pc = "done", !.faults = {"dsn"},
                                     !.out = [NoOut EXCEPT !.kind = "return", !.err = DSNError(dsnRes)]]
                /\ db' = NoDB
           ELSE IF sqRes # Nil
           THEN /\ open' = [o EXCEPT !.pc = "done", !.faults = {"open"},
                                     !.out = [NoOut EXCEPT !.kind = "return", !.err = sqRes]]
                /\ db' = NoDB
           ELSE /\ open' = [o EXCEPT !.pc = "backup"]
                /\ db' = [NoDB EXCEPT !.conn = "open", !.schema = Copy(schema)]
    /\ reg' = [reg EXCEPT !.last = NoDefine]
    /\ UNCHANGED <<schema, file, fb, txVars, cacheVars, nameVars>>

\* initDB before db.WrapTx: when a backup is due the database file is
\* copied into options.BackupDir; a copy that fails makes initDB return its
\* error without beginning the transaction.
InitBackup(copyRes) ==
    /\ open.pc = "backup"
    /\ open' = IF ~BackupDue(open.backupDir, file.userVersion, LatestVersion(schema))
               THEN [open EXCEPT !.pc = "begin"]
               ELSE IF copyRes # Nil
               THEN [open EXCEPT !.pc = "openDefer", !.err = copyRes, !.faults = @ \cup {"backup"},
                                 !.backup = [NoBackup EXCEPT !.attempted = TRUE]]
               ELSE [open EXCEPT !.pc = "begin",
                                 !.backup = [attempted |-> TRUE, written |-> TRUE, to |-> LatestVersion(schema),
                                             content |-> file, inTx |-> open.begun]]
    /\ UNCHANGED <<schema, reg, file, db, fb, txVars, cacheVars, nameVars>>

\* initDB calls db.WrapTx: d.root.Beginx().  A failed Beginx makes WrapTx,
\* initDB and then Open return its error.
OpenBegin(beginRes) ==
    /\ open.pc = "begin"
    /\ open' = IF beginRes # Nil
               THEN [open EXCEPT !.pc = "openDefer", !.err = beginRes, !.faults = @ \cup {"begin"}]
               ELSE [open EXCEPT !.pc = "getApplicationId", !.begun = TRUE, !.txn = file, !.steps = Append(@, "begin")]
    /\ UNCHANGED <<schema, reg, file, db, fb, txVars, cacheVars, nameVars>>

\* applicationId, err := vs.GetApplicationId(tx), and the identity check.
InitGetApplicationId(primErr, fbVal, fbErr) ==
    /\ open.pc = "getApplicationId"
    /\ LET r == StoreGet(open.vs, open.txn.appId, primErr, fbVal, fbErr)
           o == [open EXCEPT !.consultedId = r.consulted, !.applicationId = IF r.err = Nil THEN r.val ELSE 0,
                             !.steps = Append(@, "getApplicationId"),
                             !.faults = IF r.err # Nil THEN @ \cup {"getApplicationId"} ELSE @]
       IN  /\ open' = IF r.err # Nil THEN InitFails(o, r.err)
                      ELSE IF IdentityMismatch(r.val, ApplicationID(schema))
                      THEN InitFails(o, AppIdMismatchError(r.val, ApplicationID(schema)))
                      ELSE [o EXCEPT !.pc = "setApplicationId"]
           /\ fb' = [fb EXCEPT !.callAppId = IF r.consulted THEN @ + 1 ELSE @,
                               !.stale = @ \/ (r.consulted /\ file.appId # 0)]
    /\ UNCHANGED <<schema, reg, file, db, txVars, cacheVars, nameVars>>

\* vs.SetApplicationId(tx, schema.ApplicationID())
InitSetApplicationId(writeErr) ==
    /\ open.pc = "setApplicationId"
    /\ open' = IF writeErr # Nil
               THEN InitFails([open EXCEPT !.faults = @ \cup {"setApplicationId"}, !.steps = Append(@, "setApplicationId")], writeErr)
               ELSE [open EXCEPT !.pc = "getUserVersion", !.txn.appId = ApplicationID(schema), !.steps = Append(@, "setApplicationId")]
    /\ UNCHANGED <<schema, reg, file, db, fb, txVars, cacheVars, nameVars>>

\* userVersion, err := vs.GetUserVersion(tx), the version check, and the
\* entry into schema.Upgrade(tx, userVersion).
InitGetUserVersion(primErr, fbVal, fbErr) ==
    /\ open.pc = "getUserVersion"
    /\ LET r == StoreGet(open.vs, open.txn.userVersion, primErr, fbVal, fbErr)
           o == [open EXCEPT !.consultedVersion = r.consulted, !.userVersion = IF r.err = Nil THEN r.val ELSE 0,
                             !.steps = Append(@, "getUserVersion"),
                             !.faults = IF r.err # Nil THEN @ \cup {"getUserVersion"} ELSE @]
       IN  /\ open' = IF r.err # Nil THEN InitFails(o, r.err)
                      ELSE IF VersionTooHigh(r.val, LatestVersion(schema))
                      THEN InitFails(o, VersionTooHighError(r.val, LatestVersion(schema)))
                      ELSE [o EXCEPT !.pc = "upgrade", !.i = UpgradeStart(r.val), !.newVersion = LatestVersion(schema)]
           /\ fb' = [fb EXCEPT !.callVersion = IF r.consulted THEN @ + 1 ELSE @,
                               !.stale = @ \/ (r.consulted /\ file.userVersion # 0)]
    /\ UNCHANGED <<schema, reg, file, db, txVars, cacheVars, nameVars>>

ExecErrorIgnored(execRes) == FALSE

\* `if _, err := tx.Exec(s.versions[i]); err != nil { return -1, err }`
ExecFailed(execRes) == execRes # Nil

\* One iteration of Upgrade's loop `for i := currentVersion; i < newVersion;
\* i++ { tx.Exec(s.versions[i]) }`: an index outside the slice panics; a
\* failed Exec returns (-1, err); otherwise the script has taken effect
\* inside the transaction.
UpgradeExec(execRes) ==
    /\ open.pc = "upgrade"
    /\ LoopContinues(open.i, open.newVersion)
    /\ open' = IF ~IndexInRange(schema, open.i)
               THEN [open EXCEPT !.pc = "txDefer", !.panicking = "index out of range"]
               ELSE IF ExecFailed(execRes)
               THEN InitFails([open EXCEPT !.executed = Append(@, open.i), !.newVersion = -1,
                                           !.scriptErr = execRes, !.faults = @ \cup {"exec"},
                                           !.steps = Append(@, "exec")], execRes)
               ELSE [open EXCEPT !.executed = Append(@, open.i), !.i = @ + 1,
                                 !.txn.effects = Append(@, ScriptAt(schema, open.i)),
                                 !.faults = IF execRes # Nil THEN @ \cup {"exec"} ELSE @,
                                 !.steps = Append(@, "exec")]
    /\ UNCHANGED <<schema, reg, file, db, fb, txVars, cacheVars, nameVars>>

\* The loop is over: Upgrade returns (newVersion, nil) and initDB ends with
\* `return vs.SetUserVersion(tx, newVersion)`.
InitSetUserVersion(writeErr) ==
    /\ open.pc = "upgrade"
    /\ ~LoopContinues(open.i, open.newVersion)
    /\ open' = IF writeErr # Nil
               THEN InitFails([open EXCEPT !.faults = @ \cup {"setUserVersion"}, !.steps = Append(@, "setUserVersion")], writeErr)
               ELSE [open EXCEPT !.pc = "commit", !.txn.userVersion = open.newVersion, !.steps = Append(@, "setUserVersion")]
    /\ UNCHANGED <<schema, reg, file, db, fb, txVars, cacheVars, nameVars>>

CommitLosesWrites(f, txn) == f

\* tx.Commit() that succeeds: the writes made inside the transaction become
\* the file's.
Committed(f, txn) == txn

\* WrapTx after the work function returned nil: once.Do(func() { err =
\* tx.Commit() }).  A commit that succeeds makes the transaction's writes
\* the file's; one that fails leaves the file as it was.
OpenCommit(commitRes) ==
    /\ open.pc = "commit"
    /\ IF OnceDo(open.txOnce)
       THEN /\ open' = [open EXCEPT !.pc = "txDefer", !.txOnce = TRUE, !.commits = @ + 1, !.err = CommitResult(commitRes),
                                    !.steps = Append(@, "commit"),
                                    !.faults = IF commitRes # Nil THEN @ \cup {"commit"} ELSE @]
            /\ file' = IF commitRes = Nil THEN Committed(file, open.txn) ELSE file
       ELSE /\ open' = [open EXCEPT !.pc = "txDefer", !.err = errDetectPanic, !.panicking = "logic error"]
            /\ file' = file
    /\ UNCHANGED <<schema, reg, db, fb, txVars, cacheVars, nameVars>>

RollbackKeepsWrites(f, txn) == txn

\* tx.Rollback(): the file is left as it was committed, without the writes
\* made inside the transaction.
RolledBack(f, txn) == f

\* WrapTx's deferred once.Do(func() { if err := tx.Rollback(); err != nil {
\* panic(err) } }): it rolls back unless the commit has fired the Once.
OpenTxDeferred(rollbackRes) ==
    /\ open.pc = "txDefer"
    /\ file' = IF OnceDo(open.txOnce) THEN RolledBack(file, open.txn) ELSE file
    /\ open' = IF OnceDo(open.txOnce)
               THEN [open EXCEPT !.pc = "openDefer", !.txOnce = TRUE, !.rollbacks = @ + 1,
                                 !.steps = Append(@, "rollback"),
                                 !.panicking = IF RollbackPanics(rollbackRes) THEN rollbackRes ELSE @,
                                 !.faults = IF rollbackRes # Nil THEN @ \cup {"rollback"} ELSE @]
               ELSE [open EXCEPT !.pc = "openDefer"]
    /\ UNCHANGED <<schema, reg, db, fb, txVars, cacheVars, nameVars>>

\* `if err = initDB(db, options, vs); err != nil { return nil, err }`
InitDBFailed(err) == err # Nil

OpenResultKeepsSession(failed, err) == [db |-> "db", err |-> err]

\* The two return statements after initDB: `return nil, err` and
\* `return db, nil`.
OpenResult(failed, err) == IF failed THEN [db |-> "nil", err |-> err] ELSE [db |-> "db", err |-> Nil]

\* The end of Open.  After a successful initDB, once.Do(func() {}) fires
\* Open's Once, so the deferred once.Do(func() { if err := sq.Close(); err !=
\* nil { panic(err) } }) does nothing and (db, nil) is returned.  After a
\* failed or panicking initDB the deferred call closes the connection; a
\* failed Close panics, replacing the return or the panic in flight.
OpenReturn(closeRes) ==
    /\ open.pc = "openDefer"
    /\ LET panicking == open.panicking # Nil
           failed == InitDBFailed(open.err)
           fired == IF ~panicking /\ ~failed THEN TRUE ELSE open.once
           closing == OnceDo(fired)
           res == OpenResult(failed, open.err)
       IN  /\ open' = [open EXCEPT !.pc = "done", !.once = TRUE,
                                   !.closes = IF closing THEN @ + 1 ELSE @,
                                   !.faults = IF closing /\ closeRes # Nil THEN @ \cup {"close"} ELSE @,
                                   !.out = IF closing /\ closeRes # Nil
                                           THEN [NoOut EXCEPT !.kind = "panic", !.panic = closeRes]
                                           ELSE IF panicking
                                           THEN [NoOut EXCEPT !.kind = "panic", !.panic = open.panicking]
                                           ELSE [NoOut EXCEPT !.kind = "return", !.db = res.db, !.err = res.err]]
           /\ db' = IF closing
                    THEN [db EXCEPT !.conn = "closed", !.closes = @ + 1, !.closeErr = closeRes]
                    ELSE db
    /\ UNCHANGED <<schema, reg, file, fb, txVars, cacheVars, nameVars>>

\* db.Close() on the session Open returned: d.root.Close().
DBClose(closeRes) ==
    /\ open.pc = "done"
    /\ db.conn = "open"
    /\ db' = [db EXCEPT !.conn = "closed", !.closes = @ + 1, !.closeErr = closeRes, !.read = NoRead]
    /\ reg' = [reg EXCEPT !.last = NoDefine]
    /\ UNCHANGED <<schema, file, open, fb, txVars, cacheVars, nameVars>>

\* vs.GetApplicationId(db.Handle()) on the open session, through the store
\* that was given to Open.
ReadApplicationId(primErr, fbVal, fbErr) ==
    /\ open.pc = "done"
    /\ db.conn = "open"
    /\ LET r == StoreGet(open.vs, file.appId, primErr, fbVal, fbErr)
       IN  /\ db' = [db EXCEPT !.read = [field |-> "application_id", val |-> r.val, err |-> r.err,
                                         consulted |-> r.consulted, primary |-> file.appId]]
           /\ fb' = [fb EXCEPT !.callAppId = IF r.consulted THEN @ + 1 ELSE @,
                               !.stale = @ \/ (r.consulted /\ file.appId # 0)]
    /\ reg' = [reg EXCEPT !.last = NoDefine]
    /\ UNCHANGED <<schema, file, open, txVars, cacheVars, nameVars>>

\* vs.GetUserVersion(db.Handle()) on the open session.
ReadUserVersion(primErr, fbVal, fbErr) ==
    /\ open.pc = "done"
    /\ db.conn = "open"
    /\ LET r == StoreGet(open.vs, file.userVersion, primErr, fbVal, fbErr)
       IN  /\ db' = [db EXCEPT !.read = [field |-> "user_version", val |-> r.val, err |-> r.err,
                                         consulted |-> r.consulted, primary |-> file.userVersion]]
           /\ fb' = [fb EXCEPT !.callVersion = IF r.consulted THEN @ + 1 ELSE @,
                               !.stale = @ \/ (r.consulted /\ file.userVersion # 0)]
    /\ reg' = [reg EXCEPT !.last = NoDefine]
    /\ UNCHANGED <<schema, file, open, txVars, cacheVars, nameVars>>

\* --- backup file name ---

\* Paths are sequences of path tokens: the separator "/", the dot ".", and
\* names that hold neither.  Render gives the path as a string.
RECURSIVE Render(_)
Render(path) == IF path = <<>> THEN "" ELSE Head(path) \o Render(Tail(path))

\* The index of the last token t of path, 0 when there is none, found by
\* scanning from the end.
RECURSIVE LastIndex(_, _, _)
LastIndex(path, t, k) == IF k = 0 THEN 0 ELSE IF path[k] = t THEN k ELSE LastIndex(path, t, k - 1)

\* The final element of path: what follows the last separator.
Base(path) == SubSeq(path, LastIndex(path, "/", Len(path)) + 1, Len(path))

ExtFromFirstDot(name) ==
    IF \E k \in 1..Len(name) : name[k] = "."
    THEN CHOOSE k \in 1..Len(name) : name[k] = "." /\ \A j \in 1..(k - 1) : name[j] # "."
    ELSE 0

\* Where the extension of a file name begins: at its last dot (0: no dot).
ExtDot(name) == LastIndex(name, ".", Len(name))

\* The name without its extension, and the extension without its dot.
Stem(name) == IF ExtDot(name) = 0 THEN name ELSE SubSeq(name, 1, ExtDot(name) - 1)

Ext(name) == IF ExtDot(name) = 0 THEN <<>> ELSE SubSeq(name, ExtDot(name) + 1, Len(name))

\* The backup directory joined with a file name.
Join(dir, name) == IF dir = "" THEN name ELSE dir \o "/" \o name

\* backupFilename(options, schema): the path of the backup made before the
\* upgrade to schema.LatestVersion().
backupFilename(File, BackupDir, s) ==
    Join(BackupDir, Render(Stem(Base(File))) \o ".before_v" \o ToString(LatestVersion(s)) \o "_upgrade"
                    \o (IF Ext(Base(File)) = <<>> THEN "" ELSE "." \o Render(Ext(Base(File)))))

\* The directories, name stems and extensions of the database files named
\* in OpenOptions.File.
FileDirs == {<<>>, <<"foo", "/">>, <<"foo", ".", "d", "/">>, <<"a", "/", "b", "/">>}

FileStems == {<<"test">>, <<"test", ".", "foo">>, <<".", "test">>}

FileExts == {<<>>, <<".", "db">>}

Files == {d \o n \o e : d \in FileDirs, n \in FileStems, e \in FileExts}

\* No backupFilename call made.
NoName == [pc |-> "idle", File |-> <<>>, BackupDir |-> "", n |-> 0, out |-> ""]

\* A program about to call backupFilename with a file path, a backup
\* directory and a schema of n versions.
NameInit ==
    \E f \in Files, b \in BackupDirs \ {""}, n \in 1..MaxVersions :
        bf = [pc |-> "call", File |-> f, BackupDir |-> b, n |-> n, out |-> ""]

\* out := backupFilename(OpenOptions{BackupDir: .., File: ..}, schema)
BackupFilenameCall ==
    /\ bf.pc = "call"
    /\ bf' = [bf EXCEPT !.pc = "done",
                        !.out = backupFilename(bf.File, bf.BackupDir, Registered("CREATE TABLE t ( foo TEXT, bar NUMERIC )", bf.n))]
    /\ UNCHANGED <<txVars, cacheVars, openVars>>

NameNext == BackupFilenameCall

\* A schema fresh from NewSqlSchema of any root script of Roots, a new file
\* and no session.
SchemaInit ==
    /\ \E rootSchema \in Roots : schema = NewSqlSchema(rootSchema)
    /\ reg = [defined |-> 0, last |-> NoDefine]
    /\ file = FreshFile
    /\ open = OpenIdle
    /\ db = NoDB
    /\ fb = [callAppId |-> 0, callVersion |-> 0, stale |-> FALSE]

SchemaNext == \E v \in 0..(MaxVersions + 1), s \in Scripts : DefineUpgrade(v, s)

\* A schema fresh from NewSqlSchema, no session, and the fallback reader
\* never called; the file is new.
FreshInit ==
    /\ schema = NewSqlSchema("CREATE TABLE t ( foo TEXT, bar NUMERIC )")
    /\ reg = [defined |-> 0, last |-> NoDefine]
    /\ file = FreshFile
    /\ open = OpenIdle
    /\ db = NoDB
    /\ fb = [callAppId |-> 0, callVersion |-> 0, stale |-> FALSE]

\* A program that has registered its schema, of 1 to MaxVersions versions,
\* and a file that is new or was left by an earlier process with any header.
OpenInit ==
    /\ \E n \in 1..MaxVersions :
          /\ schema = Registered("CREATE TABLE t ( foo TEXT, bar NUMERIC )", n)
          /\ reg = [defined |-> n - 1, last |-> NoDefine]
    /\ \E a \in StoredIds, v \in StoredVersions : file = [appId |-> a, userVersion |-> v, effects |-> <<>>]
    /\ open = OpenIdle
    /\ db = NoDB
    /\ fb = [callAppId |-> 0, callVersion |-> 0, stale |-> FALSE]

OpenNext ==
    \/ \E vs \in VersionStorerOptions, b \in BackupDirs, d \in {Nil, "e1"}, e \in {Nil, "e1"} : OpenCall(vs, b, d, e)
    \/ \E e \in {Nil, "e1"} : InitBackup(e)
    \/ \E e \in {Nil, "e1"} : OpenBegin(e)
    \/ \E e \in {Nil, "e1"}, a \in StoredIds, f \in {Nil, "e2"} : InitGetApplicationId(e, a, f)
    \/ \E e \in {Nil, "e1"} : InitSetApplicationId(e)
    \/ \E e \in {Nil, "e1"}, v \in StoredVersions, f \in {Nil, "e2"} : InitGetUserVersion(e, v, f)
    \/ \E e \in {Nil, "e1"} : UpgradeExec(e)
    \/ \E e \in {Nil, "e1"} : InitSetUserVersion(e)
    \/ \E e \in {Nil, "e1"} : OpenCommit(e)
    \/ \E e \in {Nil, "e2"} : OpenTxDeferred(e)
    \/ \E e \in {Nil, "e2"} : OpenReturn(e)
    \/ \E e \in {Nil, "e1"} : DBClose(e)
    \/ \E e \in {Nil, "e1"}, a \in StoredIds, f \in {Nil, "e2"} : ReadApplicationId(e, a, f)
    \/ \E e \in {Nil, "e1"}, v \in StoredVersions, f \in {Nil, "e2"} : ReadUserVersion(e, v, f)

\* A program that registers upgrades and opens the file in turn, with the
\* default version store and a driver that reports no error.
SessionNext ==
    \/ \E v \in 0..(MaxVersions + 1), s \in Scripts : DefineUpgrade(v, s)
    \/ OpenCall("nil", "", Nil, Nil)
    \/ InitBackup(Nil)
    \/ OpenBegin(Nil)
    \/ InitGetApplicationId(Nil, 0, Nil)
    \/ InitSetApplicationId(Nil)
    \/ InitGetUserVersion(Nil, 0, Nil)
    \/ UpgradeExec(Nil)
    \/ InitSetUserVersion(Nil)
    \/ OpenCommit(Nil)
    \/ OpenTxDeferred(Nil)
    \/ OpenReturn(Nil)
    \/ DBClose(Nil)
    \/ ReadApplicationId(Nil, 0, Nil)
    \/ ReadUserVersion(Nil, 0, Nil)

Init == TxInit /\ CacheInit /\ FreshInit /\ bf = NoName

InitOpen == TxInit /\ CacheInit /\ OpenInit /\ bf = NoName

InitSchema == TxInit /\ CacheInit /\ SchemaInit /\ bf = NoName

InitName == TxInit /\ CacheInit /\ FreshInit /\ NameInit

SpecTx == Init /\ [][TxNext]_vars

SpecCache == Init /\ [][CacheNext]_vars

SpecOpen == InitOpen /\ [][OpenNext]_vars

SpecSchema == InitSchema /\ [][SchemaNext]_vars

SpecSession == InitSchema /\ [][SessionNext]_vars

SpecName == InitName /\ [][NameNext]_vars

\* ================================================================ claims

\* ---- WrapTx (SpecTx) ----

\* C1: for every WrapTx invocation whose Beginx succeeded, the transaction is
\* ended at most once at any time and, when control has left WrapTx (by
\* return or by panic), exactly once: commits + rollbacks = 1.
C1_ExactlyOneFinalization ==
    \A t \in TxCallers :
        /\ tx[t].commits + tx[t].rollbacks <= 1
        /\ (tx[t].pc = "done" /\ tx[t].begun) => tx[t].commits + tx[t].rollbacks = 1
        /\ ~tx[t].begun => tx[t].commits + tx[t].rollbacks = 0

\* The case of C1: one invocation left after a failed commit, another after
\* the work function panicked.
C1_Witness ==
    \E t, u \in TxCallers :
        /\ tx[t].pc = "done" /\ tx[t].commitRes \in Errors /\ tx[t].commits = 1
        /\ tx[u].pc = "done" /\ tx[u].workRes = "panic" /\ tx[u].rollbacks = 1

\* C2 as stated: when the work function returned a non-nil error, the
\* transaction is rolled back, no commit is attempted and WrapTx returns that
\* very error.
C2_WorkErrorReturned ==
    \A t \in TxCallers :
        (tx[t].pc = "done" /\ tx[t].workRes \in Errors) =>
            /\ tx[t].rollbacks = 1
            /\ tx[t].commits = 0
            /\ tx[t].out = <<"return", tx[t].workRes>>

\* C2, amended: when the work function returned a non-nil error, exactly one
\* rollback and no commit is attempted; WrapTx returns that very error if the
\* rollback succeeded and panics with the rollback's error if it failed.
C2_WorkErrorReturnedUnlessRollbackFails ==
    \A t \in TxCallers :
        (tx[t].pc = "done" /\ tx[t].workRes \in Errors) =>
            /\ tx[t].rollbacks = 1
            /\ tx[t].commits = 0
            /\ tx[t].out = IF tx[t].rollbackRes = Nil THEN <<"return", tx[t].workRes>> ELSE <<"panic", tx[t].rollbackRes>>

\* The case of C2: the work function returned an error, the rollback
\* succeeded and WrapTx has returned.
C2_Witness ==
    \E t \in TxCallers : tx[t].pc = "done" /\ tx[t].workRes \in Errors /\ tx[t].rollbackRes = Nil /\ tx[t].out[1] = "return"

\* C3: when the work function returned nil, commit is attempted exactly once,
\* no rollback is attempted, and WrapTx returns what the commit returned.
C3_CommitResultReturned ==
    \A t \in TxCallers :
        /\ (tx[t].workRes = Nil /\ tx[t].commits = 1) => tx[t].rollbacks = 0
        /\ (tx[t].pc = "done" /\ tx[t].workRes = Nil) =>
              /\ tx[t].commits = 1
              /\ tx[t].rollbacks = 0
              /\ tx[t].out = <<"return", tx[t].commitRes>>

\* The case of C3: the commit failed and WrapTx has returned.
C3_Witness ==
    \E t \in TxCallers : tx[t].pc = "done" /\ tx[t].workRes = Nil /\ tx[t].commitRes \in Errors

\* C4: when the rollback performed by WrapTx failed, control leaves WrapTx by
\* a panic carrying the rollback's error, never by an ordinary return.
C4_RollbackFailurePanics ==
    \A t \in TxCallers :
        (tx[t].pc = "done" /\ tx[t].rollbackRes \in Errors) => tx[t].out = <<"panic", tx[t].rollbackRes>>

\* The case of C4: the rollback failed once after the work function returned
\* an error and once after it panicked.
C4_Witness ==
    \E t, u \in TxCallers :
        /\ tx[t].pc = "done" /\ tx[t].workRes \in Errors /\ tx[t].rollbackRes \in Errors
        /\ tx[u].pc = "done" /\ tx[u].workRes = "panic" /\ tx[u].rollbackRes \in Errors

\* ---- StmtCache (SpecCache) ----

\* C5: the Prepare calls of one query text between which no Stmt.Close of
\* that text and no StmtCache.Close ran all return the same statement, which
\* is the cache entry, and LoadOrStore stored at most once for that text.
C5_SameStatement ==
    \A q \in Queries :
        /\ Cardinality(hist.epochRet[q]) <= 1
        /\ hist.stores[q] <= 1
        /\ hist.epochRet[q] # {} => hist.epochRet[q] = {cache[q]}

\* The case of C5: two Prepare calls of a query text have returned with no
\* close in between.
C5_Witness ==
    \E q \in Queries : hist.rets[q] = 2 /\ hist.last.op = "prepare" /\ hist.last.query = q /\ hist.last.kind = "stmt"

\* C6: a statement whose Close has completed is not in the cache, a Prepare
\* call that begins afterwards never returns it, and the calls that follow
\* agree on the statement they return.
C6_FreshAfterClose ==
    /\ \A s \in Created : stmts[s].once = "done" => \A q \in Queries : cache[q] # s
    /\ hist.last.op = "prepare" => ~hist.last.stale
    /\ \A q \in Queries : Cardinality(hist.epochRet[q]) <= 1

\* The case of C6: a second Prepare call in a row returned the statement
\* that replaced one closed by Stmt.Close.
C6_Witness ==
    /\ hist.last.op = "prepare" /\ hist.last.kind = "stmt" /\ hist.last.afterClose
    /\ hist.rets[hist.last.query] = 2
    /\ \E s \in hist.handed : s # hist.last.val /\ stmts[s].query = hist.last.query /\ stmts[s].once = "done"

\* C7 as stated: when StmtCache.Close returns, every statement that was
\* cached when it began has been closed and the cache is empty; a later
\* Prepare returns none of those statements.
C7_CloseClosesAll ==
    /\ hist.last.op = "cacheclose" => hist.last.cacheEmpty /\ hist.last.unclosed = {}
    /\ hist.last.op = "prepare" => ~hist.last.recycled

\* C7, amended: when StmtCache.Close returns, the cache is empty and a closer
\* has been entered for every statement that was cached when it began (it is
\* closed, or a concurrent Stmt.Close that removed it is about to close it); a
\* later Prepare returns none of those statements.
C7_CloseClosesAllOrClosing ==
    /\ hist.last.op = "cacheclose" => hist.last.cacheEmpty /\ hist.last.untouched = {}
    /\ hist.last.op = "prepare" => ~hist.last.recycled
    /\ \A s \in hist.cacheClosed : range.pc = "idle" => stmts[s].once # "idle" /\ \A q \in Queries : cache[q] # s

\* The case of C7: StmtCache.Close returned after closing two cached
\* statements.
C7_Witness ==
    hist.last.op = "cacheclose" /\ Cardinality(hist.last.cachedAtStart) = 2 /\ hist.last.unclosed = {}

\* C8: the error StmtCache.Close returns reports every statement that failed
\* to close, and is nil when none failed.
C8_AllCloseErrorsReported ==
    hist.last.op = "cacheclose" => {e[1] : e \in hist.last.val} = hist.last.failed

\* C9 as stated: a Prepare call that lost LoadOrStore has closed its own
\* fresh statement and returns the statement that won.
C9_LoserGetsWinner ==
    (hist.last.op = "prepare" /\ hist.last.lost) =>
        /\ stmts[hist.last.fresh].closes = 1
        /\ hist.last.kind = "stmt"
        /\ hist.last.val = hist.last.cached

\* C9, amended: a Prepare call that lost LoadOrStore closes its own fresh
\* statement exactly once, a statement that is never cached nor returned, and
\* returns the statement that won unless that close failed, in which case it
\* returns the close error; without a close in between, one statement is
\* stored per query text and every caller that gets a statement gets it.
C9_LoserGetsWinnerUnlessCloseFails ==
    /\ (hist.last.op = "prepare" /\ hist.last.lost) =>
          /\ stmts[hist.last.fresh].closes = 1
          /\ hist.last.fresh \notin hist.handed
          /\ \A q \in Queries : cache[q] # hist.last.fresh
          /\ hist.last.cached # hist.last.fresh
          /\ IF hist.last.closeErr = Nil
             THEN hist.last.kind = "stmt" /\ hist.last.val = hist.last.cached
             ELSE hist.last.kind = "err" /\ hist.last.val = hist.last.closeErr
    /\ \A q \in Queries : hist.stores[q] <= 1 /\ Cardinality(hist.epochRet[q]) <= 1

\* The case of C9: a Prepare call that lost the race returned the winner's
\* statement, which the winner had been returned too.
C9_Witness ==
    /\ hist.last.op = "prepare" /\ hist.last.lost /\ hist.last.kind = "stmt"
    /\ hist.rets[hist.last.query] = 2
    /\ hist.stores[hist.last.query] = 1

\* C10 as stated: no two distinct statements of one query text that Prepare
\* has returned are both unclosed.
C10_OneUnclosedPerQuery ==
    \A s1, s2 \in hist.handed :
        (s1 # s2 /\ stmts[s1].query = stmts[s2].query) => (stmts[s1].closes > 0 \/ stmts[s2].closes > 0)

\* C10, amended: of two distinct statements of one query text that Prepare
\* has returned, Close has been called on at least one (it is closed, or its
\* closer is running and it is out of the cache once CompareAndDelete ran).
C10_OneUnclosingPerQuery ==
    \A s1, s2 \in hist.handed :
        (s1 # s2 /\ stmts[s1].query = stmts[s2].query) => (stmts[s1].once # "idle" \/ stmts[s2].once # "idle")

\* The case of C10: Prepare has returned a second statement of a query text
\* while the first, being closed, is not closed yet.
C10_Witness ==
    \E s1, s2 \in hist.handed :
        /\ s1 # s2 /\ stmts[s1].query = stmts[s2].query
        /\ stmts[s1].once = "running" /\ stmts[s1].closes = 0
        /\ stmts[s2].once = "idle" /\ cache[stmts[s2].query] = s2

\* C11: a Prepare call that returns a statement, a Stmt.Close of the cached
\* statement of its query text racing with it or not, returns a statement
\* that is live and is the cache entry of the query text: no closer has been
\* entered for it (its prepared statement is neither closed nor being closed)
\* and the map holds it under the query text when Prepare returns.
C11_PrepareReturnsLive ==
    (hist.last.op = "prepare" /\ hist.last.kind = "stmt") =>
        /\ stmts[hist.last.val].once = "idle"
        /\ cache[hist.last.query] = hist.last.val

\* ---- Open (SpecOpen) ----

\* C12: with the default version store and no error from the driver, Open
\* of a new file (application_id 0, user_version 0) returns a session and
\* leaves user_version at LatestVersion; the next Open of the file with the
\* same schema executes no script whatever the driver does and, the driver
\* reporting no error, returns a session and leaves user_version at
\* LatestVersion.
C12_ReopenRunsNoScript ==
    /\ (open.pc = "done" /\ open.vs = "SqliteVersion" /\ open.pre = FreshFile /\ open.faults = {}) =>
           (open.out.kind = "return" /\ open.out.db = "db" /\ open.out.err = Nil /\ file.userVersion = open.latest)
    /\ (/\ open.pc = "done" /\ open.vs = "SqliteVersion"
        /\ open.prev.succeeded /\ open.prev.vs = "SqliteVersion" /\ open.prev.pre = FreshFile
        /\ open.prev.id = open.id /\ open.prev.latest = open.latest) =>
           /\ open.executed = <<>>
           /\ open.faults = {} =>
                 (open.out.kind = "return" /\ open.out.db = "db" /\ open.out.err = Nil /\ file.userVersion = open.latest)

\* A new file was opened with a schema of MaxVersions versions, every script
\* ran, and the second Open with the same schema has returned a session.
C12_Witness ==
    /\ open.pc = "done" /\ open.n = 2 /\ open.vs = "SqliteVersion" /\ open.faults = {}
    /\ open.prev.succeeded /\ open.prev.vs = "SqliteVersion" /\ open.prev.pre = FreshFile
    /\ open.prev.latest = MaxVersions /\ open.latest = MaxVersions
    /\ open.out.db = "db" /\ open.executed = <<>>
    /\ Len(file.effects) = MaxVersions /\ file.userVersion = MaxVersions

\* C13 as stated: when a script fails during Open, Open returns the
\* script's error unchanged and no session, the file is as it was before the
\* call (application_id, user_version and the effects of scripts), and the
\* next Open starts from that same file.
C13_ScriptErrorReturned ==
    /\ (open.pc = "done" /\ "exec" \in open.faults) =>
           /\ open.out.kind = "return" /\ open.out.db = "nil" /\ open.out.err = open.scriptErr
           /\ file = open.pre
    /\ open.prev.execFailed => open.pre = open.prev.pre

\* C13 amended: the same, except that Open panics instead of returning the
\* script's error when tx.Rollback() or sq.Close() fails; the file is as it
\* was before the call in every case.
C13_ScriptErrorReturnedUnlessCleanupFails ==
    /\ (open.pc = "done" /\ "exec" \in open.faults) =>
           /\ open.out.db = "nil"
           /\ IF open.faults \cap {"rollback", "close"} # {}
              THEN open.out.kind = "panic" /\ open.out.panic # Nil
              ELSE open.out.kind = "return" /\ open.out.err = open.scriptErr /\ open.scriptErr # Nil
           /\ open.rollbacks = 1 /\ open.commits = 0
           /\ file = open.pre
    /\ open.prev.execFailed => open.pre = open.prev.pre

\* A script failed after an earlier script of the same Open had succeeded,
\* Open returned the script's error, and the Open before it had failed at a
\* script too.
C13_Witness ==
    /\ open.pc = "done" /\ open.n = 2 /\ open.prev.execFailed
    /\ "exec" \in open.faults /\ Len(open.executed) >= 2
    /\ open.out.kind = "return" /\ open.out.err = open.scriptErr
    /\ file = open.pre /\ open.pre = open.prev.pre

\* C14: an Open of a file whose application_id A is not 0 with a schema
\* whose ID B is not A executes no script, writes neither field inside the
\* transaction, leaves the file as it was and returns no session; the driver
\* reporting no error, it returns the identity-mismatch error.
C14_ForeignFileRejected ==
    (open.pc # "idle" /\ open.pre.appId # 0 /\ open.pre.appId # open.id) =>
        /\ open.executed = <<>>
        /\ open.txn = open.pre
        /\ file = open.pre
        /\ open.out.db = "nil"
        /\ open.pc = "done" =>
              /\ ~(open.out.kind = "return" /\ open.out.err = Nil)
              /\ open.faults = {} =>
                    (open.out.kind = "return" /\ open.out.err = AppIdMismatchError(open.pre.appId, open.id))

\* A file of another application, older than the schema, was opened and
\* Open returned the identity-mismatch error.
C14_Witness ==
    /\ open.pc = "done" /\ open.pre.appId # 0 /\ open.pre.appId # open.id
    /\ open.pre.userVersion >= 0 /\ open.pre.userVersion < open.latest
    /\ open.begun /\ open.rollbacks = 1 /\ open.closes = 1
    /\ open.out.kind = "return" /\ open.out.db = "nil"
    /\ open.out.err = AppIdMismatchError(open.pre.appId, open.id)

\* C15: an Open of a file whose user_version exceeds LatestVersion executes
\* no script, leaves the file as it was (application_id and user_version),
\* and returns no session, also when SetApplicationId has been issued inside
\* the transaction; the identity read by initDB being 0 or the schema's ID
\* and the driver reporting no error, it returns the version error.
C15_NewerFileRejected ==
    (open.pc # "idle" /\ open.pre.userVersion > open.latest) =>
        /\ open.executed = <<>>
        /\ file = open.pre
        /\ open.out.db = "nil"
        /\ open.pc = "done" =>
              /\ ~(open.out.kind = "return" /\ open.out.err = Nil)
              /\ (open.faults = {} /\ open.applicationId \in {0, open.id}) =>
                    (open.out.kind = "return" /\ open.out.err = VersionTooHighError(open.pre.userVersion, open.latest))

\* A file without application_id and with a user_version above
\* LatestVersion was opened: the schema's ID was written inside the
\* transaction, Open returned the version error, and the file still has
\* application_id 0.
C15_Witness ==
    /\ open.pc = "done" /\ open.pre.userVersion > open.latest /\ open.pre.appId = 0
    /\ open.txn.appId = open.id /\ open.id # 0 /\ open.rollbacks = 1
    /\ open.out.kind = "return" /\ open.out.err = VersionTooHighError(open.pre.userVersion, open.latest)
    /\ file.appId = 0 /\ file.userVersion = open.pre.userVersion

\* C16: when Open has returned a session, the file's application_id is the
\* schema's ApplicationID() and its user_version the schema's
\* LatestVersion(), whatever they were before the call.
C16_SuccessfulOpenStampsFile ==
    (open.pc = "done" /\ open.out.kind = "return" /\ open.out.db = "db") =>
        /\ file.appId = open.id /\ file.userVersion = open.latest
        /\ open.id = ApplicationID(schema) /\ open.latest = LatestVersion(schema)
        /\ open.commits = 1 /\ open.rollbacks = 0

\* Open returned a session for a file that had the schema's ID and version
\* 1, the schema having MaxVersions versions, after a first Open of the same
\* file had failed.
C16_Witness ==
    /\ open.pc = "done" /\ open.out.kind = "return" /\ open.out.db = "db" /\ open.n = 2
    /\ open.pre.appId = open.id /\ open.pre.userVersion = 1 /\ open.latest = MaxVersions
    /\ file.appId = open.id /\ file.userVersion = MaxVersions
    /\ open.prev.pre = open.pre /\ ~open.prev.succeeded

\* C17: when Open returns, it returns either a session and a nil error or
\* no session and an error.  When initDB failed or panicked, Open has called
\* sq.Close() exactly once and the connection is closed as control leaves
\* Open; when Open returns a session it has not called sq.Close().
C17_SessionOrError ==
    open.pc = "done" =>
        /\ open.out.kind = "return" =>
              \/ open.out.db = "db" /\ open.out.err = Nil
              \/ open.out.db = "nil" /\ open.out.err # Nil
        /\ (open.out.db = "nil" /\ open.faults \cap {"dsn", "open"} = {}) =>
              (open.closes = 1 /\ db.closes = 1 /\ db.conn = "closed")
        /\ open.out.db = "db" =>
              (open.closes = 0 /\ db.closes = IF db.conn = "open" THEN 0 ELSE 1)

\* initDB failed in an Open that follows one which returned a session: no
\* session and an error are returned and the connection was closed once.
C17_Witness ==
    /\ open.pc = "done" /\ open.n = 2 /\ open.prev.succeeded
    /\ open.out.kind = "return" /\ open.out.db = "nil" /\ open.out.err # Nil
    /\ open.begun /\ open.closes = 1 /\ db.conn = "closed"

\* C18 as stated: over the Open calls on the file and the later reads
\* through the store, the fallback reader's GetApplicationId and
\* GetUserVersion are each called at most once, and each exactly once by the
\* time a first Open, of a file without application_id and user_version, has
\* returned a session through the FallbackVersion store.
C18_FallbackConsultedOnce ==
    /\ fb.callAppId <= 1 /\ fb.callVersion <= 1
    /\ (open.pc = "done" /\ open.n = 1 /\ open.vs = "FallbackVersion" /\ open.pre = FreshFile /\ open.out.db = "db") =>
           (fb.callAppId = 1 /\ fb.callVersion = 1)

\* C18 amended: the fallback reader is called for a field only by a read
\* that found 0 for the field in the file.  An Open that adopts a file
\* without application_id and user_version and returns a session has called
\* each of the two once; no read on that session and no later Open of the
\* file calls the fallback reader again.
C18_FallbackConsultedWhilePrimaryZero ==
    /\ ~fb.stale
    /\ open.consultedId => (open.vs = "FallbackVersion" /\ open.pre.appId = 0)
    /\ open.consultedVersion => (open.vs = "FallbackVersion" /\ open.pre.userVersion = 0)
    /\ db.read.consulted => (open.vs = "FallbackVersion" /\ db.read.primary = 0)
    /\ (open.pc = "done" /\ open.n = 1 /\ open.vs = "FallbackVersion" /\ open.pre = FreshFile /\ open.out.db = "db") =>
           (fb.callAppId = 1 /\ fb.callVersion = 1 /\ ~db.read.consulted)
    /\ (open.prev.succeeded /\ open.prev.id # 0) => (~open.consultedId /\ ~open.consultedVersion)

\* A file without application_id and user_version was adopted through the
\* FallbackVersion store, and a second Open through the same store has
\* returned a session and a read was made on it: the fallback reader was
\* called once for each field in all.
C18_Witness ==
    /\ open.pc = "done" /\ open.n = 2 /\ open.vs = "FallbackVersion" /\ open.out.db = "db"
    /\ open.prev.succeeded /\ open.prev.vs = "FallbackVersion" /\ open.prev.pre = FreshFile
    /\ db.read.field = "user_version" /\ db.read.err = Nil
    /\ fb.callAppId = 1 /\ fb.callVersion = 1

\* C19: an Open through the FallbackVersion store of a file without
\* application_id and user_version, for which the fallback reader returns
\* the schema's ID and a version v in 0..LatestVersion, passes to tx.Exec
\* only the scripts of versions v+1, v+2, .. in this order (0-based indices
\* v, v+1, ..), and, the driver reporting no error, executes them up to
\* LatestVersion, returns a session and leaves the schema's ID and
\* LatestVersion in the file.
C19_LegacyAdopted ==
    (/\ open.pc = "done" /\ open.vs = "FallbackVersion" /\ open.pre.appId = 0 /\ open.pre.userVersion = 0
     /\ open.consultedId /\ open.consultedVersion /\ "getUserVersion" \notin open.faults
     /\ open.applicationId = open.id /\ open.userVersion \in 0..open.latest) =>
        /\ \A k \in 1..Len(open.executed) : open.executed[k] = open.userVersion + k - 1
        /\ Len(open.executed) <= open.latest - open.userVersion
        /\ open.faults = {} =>
              /\ open.out.kind = "return" /\ open.out.db = "db" /\ open.out.err = Nil
              /\ Len(open.executed) = open.latest - open.userVersion
              /\ file.appId = open.id /\ file.userVersion = open.latest
              /\ Len(file.effects) = Len(open.pre.effects) + Len(open.executed)

\* The fallback reader returned the schema's ID and version 2 for a file
\* without application_id and user_version; the schema has 3 versions: only
\* the script of version 3 was executed and the file holds the ID and
\* version 3.
C19_Witness ==
    /\ open.pc = "done" /\ open.n = 1 /\ open.vs = "FallbackVersion" /\ open.pre = FreshFile
    /\ open.consultedId /\ open.consultedVersion /\ open.applicationId = open.id
    /\ open.userVersion = MaxVersions - 1 /\ open.latest = MaxVersions /\ open.userVersion >= 1
    /\ open.executed = <<MaxVersions - 1>> /\ open.out.db = "db"
    /\ file.appId = open.id /\ file.userVersion = MaxVersions
    /\ file.effects = <<ScriptAt(schema, MaxVersions - 1)>>

\* ---- schema registration (SpecSchema) ----

\* C20: a DefineUpgrade(v, script) call returns only when v is
\* LatestVersion + 1, and it has then appended the script and raised
\* LatestVersion by 1, so that the k-th call that returns had v = k + 1; a
\* call with any other v panics and leaves the schema as it was.
\* LatestVersion is always 1 + the number of calls that returned, and
\* version 1 is the root script.
C20_IncrementalRegistration ==
    /\ LatestVersion(schema) = 1 + reg.defined
    /\ schema.ID = NewSqlSchema(schema.versions[1]).ID
    /\ reg.last.kind = "ok" =>
          /\ reg.last.newVersion = LatestVersion(reg.last.before) + 1
          /\ reg.last.newVersion = reg.defined + 1
          /\ schema.versions = Append(reg.last.before.versions, reg.last.newSchema)
          /\ LatestVersion(schema) = LatestVersion(reg.last.before) + 1
          /\ schema.ID = reg.last.before.ID
    /\ reg.last.kind = "panic" =>
          /\ reg.last.newVersion # LatestVersion(reg.last.before) + 1
          /\ schema = reg.last.before

\* After two upgrades were registered, a call that names a version already
\* registered has panicked.
C20_Witness ==
    /\ reg.defined = 2 /\ LatestVersion(schema) = 3
    /\ reg.last.kind = "panic" /\ reg.last.newVersion = 3
    /\ schema.versions[2] # schema.versions[3]

\* ---- sessions and later registration (SpecSession) ----

\* C21: the schema an open session holds has the script list, the
\* LatestVersion and the ApplicationID the program's schema had when Open
\* was called, whatever DefineUpgrade calls were made since; an Open call
\* works with the schema as registered when it is called.
C21_SessionSchemaPrivate ==
    /\ (open.pc = "done" /\ db.conn = "open") =>
          /\ LatestVersion(SessionSchema(db, schema)) = open.latest
          /\ ApplicationID(SessionSchema(db, schema)) = open.id
          /\ SessionSchema(db, schema).versions = SubSeq(schema.versions, 1, open.latest)
    /\ open.pc \notin {"idle", "done"} =>
          (open.latest = LatestVersion(schema) /\ SessionSchema(db, schema).versions = schema.versions)

\* An upgrade was registered while the session of a second Open was open;
\* the second Open had itself upgraded the file to a version registered
\* after the first Open.
C21_Witness ==
    /\ open.pc = "done" /\ db.conn = "open" /\ open.n = 2
    /\ reg.last.kind = "ok" /\ LatestVersion(schema) = open.latest + 1
    /\ open.prev.latest < open.latest /\ open.executed # <<>>
    /\ file.userVersion = open.latest

\* ------------------------------------------- backup before upgrade (SpecOpen)

\* C22: in an Open that reached initDB, a backup copy of the database file
\* is attempted if and only if a backup directory is configured and the
\* version stored when Open was called is lower than the schema's latest
\* version, and it is written unless the copy itself failed; the copy is
\* made before the upgrade transaction begins and holds the file as it was
\* before the upgrade; an Open that failed before initDB makes none, and
\* after a failed copy no transaction is begun and no script is executed.
C22_BackupBeforeUpgrade ==
    /\ (open.pc \notin {"idle", "backup"} /\ open.faults \cap {"dsn", "open"} = {}) =>
          /\ open.backup.attempted <=> (open.backupDir # "" /\ open.pre.userVersion < open.latest)
          /\ open.backup.written <=> (open.backup.attempted /\ "backup" \notin open.faults)
          /\ open.backup.written =>
                (~open.backup.inTx /\ open.backup.content = open.pre /\ open.backup.to = open.latest)
          /\ (open.backup.attempted /\ ~open.backup.written) =>
                (~open.begun /\ open.executed = <<>> /\ file = open.pre)
    /\ open.faults \cap {"dsn", "open"} # {} => ~open.backup.attempted
    /\ open.pc = "backup" => (~open.begun /\ ~open.backup.attempted)

\* An Open with a backup directory upgraded an older file: the copy holds
\* the file as it was and the file is now at the latest version.
C22_Witness ==
    /\ open.pc = "done" /\ open.out.db = "db"
    /\ open.backupDir = "bar" /\ open.backup.written
    /\ open.executed # <<>>
    /\ open.backup.content.userVersion < open.latest
    /\ file.userVersion = open.latest

\* ------------------------------------------------ backup file name (SpecName)

\* C23: for a database file whose final path element is B.E, E being what
\* follows its last dot, and a schema whose latest version is V, the backup
\* path is <BackupDir>/B.before_v{V}_upgrade.E when E is not empty and
\* <BackupDir>/B.before_v{V}_upgrade when it is empty or the element has no
\* dot; only the last extension is moved and the directory of the file is
\* dropped ("foo/test.db", "foo/test.foo.db" and "foo/test" give
\* test.before_v{V}_upgrade.db, test.foo.before_v{V}_upgrade.db and
\* test.before_v{V}_upgrade in the backup directory).
C23_BackupFileNaming ==
    bf.pc = "done" =>
       LET V == ToString(bf.n)
           dir == bf.BackupDir \o "/"
       IN  /\ \A k \in 0..Len(bf.File) :
                 LET final == SubSeq(bf.File, k + 1, Len(bf.File))
                     n == Len(final)
                 IN  ((k = 0 \/ bf.File[k] = "/") /\ \A j \in 1..n : final[j] # "/") =>
                        /\ (\A j \in 1..n : final[j] # ".") =>
                              bf.out = dir \o Render(final) \o ".before_v" \o V \o "_upgrade"
                        /\ \A d \in 1..n :
                              (final[d] = "." /\ \A j \in (d + 1)..n : final[j] # ".") =>
                                 bf.out = dir \o Render(SubSeq(final, 1, d - 1)) \o ".before_v" \o V \o "_upgrade"
                                          \o (IF d = n THEN "" ELSE "." \o Render(SubSeq(final, d + 1, n)))
           /\ bf.File = <<"foo", "/", "test", ".", "db">> =>
                 bf.out = dir \o "test.before_v" \o V \o "_upgrade.db"
           /\ bf.File = <<"foo", "/", "test", ".", "foo", ".", "db">> =>
                 bf.out = dir \o "test.foo.before_v" \o V \o "_upgrade.db"
           /\ bf.File = <<"foo", "/", "test">> =>
                 bf.out = dir \o "test.before_v" \o V \o "_upgrade"

\* TestBackupFilename's second case: "foo/test.foo.db" with BackupDir "bar"
\* and a schema of one version.
C23_Witness ==
    /\ bf.pc = "done"
    /\ bf.File = <<"foo", "/", "test", ".", "foo", ".", "db">> /\ bf.BackupDir = "bar" /\ bf.n = 1
    /\ bf.out = "bar/test.foo.before_v1_upgrade.db"

\* ------------------------------------------- the ordered upgrade pass (SpecOpen)

\* C24: the calls of an Open's upgrade are one pass inside one transaction:
\* begin, read identity, (identity check) write identity, read version,
\* (version check) the scripts, write version, then one commit or one
\* rollback.  When the version read is v with 0 <= v <= N, the scripts
\* executed are those at the 0-based indices v, v+1, .. in ascending
\* order, each once and none beyond N-1; a script that errors is the last
\* one executed; the version is written only after all of v..N-1 succeeded.
C24_OrderedUpgradePass ==
    LET N == open.latest
        v == open.userVersion
        body == SelectSeq(open.steps, LAMBDA x : x \notin {"commit", "rollback"})
        end == SubSeq(open.steps, Len(body) + 1, Len(open.steps))
        head == <<"begin", "getApplicationId", "setApplicationId", "getUserVersion">>
        execs(k) == [j \in 1..k |-> "exec"]
        full == head \o execs(N - v) \o <<"setUserVersion">>
        IsPrefix(a, b) == Len(a) <= Len(b) /\ SubSeq(b, 1, Len(a)) = a
        read == Len(body) >= 4 /\ "getUserVersion" \notin open.faults
    IN  /\ open.steps = body \o end
        /\ end \in {<<>>, <<"commit">>, <<"rollback">>}
        /\ (open.steps # <<>>) <=> open.begun
        /\ IF Len(body) <= 4 THEN IsPrefix(body, head) ELSE SubSeq(body, 1, 4) = head
        /\ Len(body) >= 3 =>
              ("getApplicationId" \notin open.faults /\ ~IdentityMismatch(open.applicationId, open.id))
        /\ Len(body) > 4 => (read /\ ~VersionTooHigh(v, N))
        /\ (read /\ 0 <= v /\ v <= N) =>
              /\ IsPrefix(body, full)
              /\ open.executed = [j \in 1..Len(open.executed) |-> v + j - 1]
              /\ Len(body) = 4 + Len(open.executed) + (IF body # <<>> /\ body[Len(body)] = "setUserVersion" THEN 1 ELSE 0)
              /\ "exec" \in open.faults =>
                    (open.executed # <<>> /\ body = head \o execs(Len(open.executed)) /\ open.scriptErr # Nil)
              /\ (body # <<>> /\ body[Len(body)] = "setUserVersion") =>
                    (Len(open.executed) = N - v /\ "exec" \notin open.faults)
              /\ end = <<"commit">> => (body = full /\ "setUserVersion" \notin open.faults)
              /\ open.panicking # "index out of range"

\* An Open of a file at version 1 under a schema of three versions ran the
\* whole pass: scripts 1 and 2, then the version write, then the commit.
C24_Witness ==
    /\ open.pc = "done" /\ open.out.db = "db"
    /\ open.userVersion = 1 /\ open.latest = 3
    /\ open.executed = <<1, 2>>
    /\ open.steps = <<"begin", "getApplicationId", "setApplicationId", "getUserVersion", "exec", "exec", "setUserVersion", "commit">>
    /\ file.userVersion = 3

\* ------------------------------------------------ Stmt.Close (SpecCache)

\* C25: the closer of a statement s of query text q first removes the
\* cache entry of q, and only if that entry is s itself, and then closes
\* s's prepared statement: its CompareAndDelete step runs while s is not
\* closed yet and changes nothing but an entry holding s, its Close step
\* changes no cache entry and no other statement, so that closing a
\* statement that is not the current entry neither evicts nor closes the
\* statement cached for q.
C25_CloseEvictsOnlyItself ==
    [][\A c \in Callers :
          LET s == callers[c].closing
              q == stmts[s].query
          IN  /\ (callers[c].pc = "closerCAD" /\ callers'[c].pc = "closerClose") =>
                    /\ stmts[s].closes = 0 /\ \A t \in Created : stmts'[t].closes = stmts[t].closes
                    /\ cache' = [k \in Queries |-> IF k = q /\ cache[k] = s THEN None ELSE cache[k]]
              /\ (callers[c].pc = "closerClose" /\ callers'[c].pc # "closerClose") =>
                    /\ cache' = cache
                    /\ cache[q] # s
                    /\ stmts'[s].closes = stmts[s].closes + 1
                    /\ \A t \in Created \ {s} : stmts'[t] = stmts[t]]_vars

\* A Prepare call that lost the race has closed its own statement, which was
\* never registered, and the winner's statement is still cached and untouched.
C25_Witness ==
    /\ hist.last.op = "prepare" /\ hist.last.lost
    /\ stmts[hist.last.fresh].closes = 1
    /\ cache[hist.last.query] = hist.last.cached
    /\ hist.last.cached # hist.last.fresh
    /\ stmts[hist.last.cached].once = "idle" /\ stmts[hist.last.cached].closes = 0

\* C26: however many Close calls are made on one Stmt, one after another
\* or at once, by its holders, by a Prepare call that lost the race or by
\* StmtCache.Close, its prepared statement is closed at most once and
\* CompareAndDelete is called for it at most once; only the call whose
\* once.Do ran the closer can return an error, every other call returns nil.
C26_CloseIdempotent ==
    /\ \A s \in Created :
          /\ stmts[s].closes <= 1
          /\ stmts[s].cads <= 1
          /\ stmts[s].closes <= stmts[s].cads
          /\ stmts[s].once = "idle" => stmts[s].cads = 0
          /\ stmts[s].once = "done" => stmts[s].closes = 1
    /\ (hist.last.op = "stmtclose" /\ ~hist.last.first) =>
          (hist.last.kind = "nil" /\ stmts[hist.last.cached].closes = 1)
    /\ (hist.last.op = "stmtclose" /\ hist.last.kind = "err") => hist.last.first

\* A holder calls Close again on a statement that StmtCache.Close has
\* closed: the call returns nil and the statement stays closed once.
C26_Witness ==
    /\ hist.last.op = "stmtclose" /\ ~hist.last.first /\ hist.last.kind = "nil"
    /\ hist.last.cached \in hist.cacheClosed
    /\ stmts[hist.last.cached].closes = 1 /\ stmts[hist.last.cached].cads = 1

\* C27: in every state reached by interleavings of Prepare, Stmt.Close and
\* StmtCache.Close, a statement stored in the cache map has not had its
\* prepared statement closed: its closer has not yet removed an entry, so
\* the entry is removed before the close, and what LoadOrStore inserts is
\* unclosed.
C27_CachedImpliesUnclosed ==
    \A q \in Queries :
        cache[q] # None =>
            /\ cache[q] \in Created
            /\ stmts[cache[q]].query = q
            /\ stmts[cache[q]].closes = 0
            /\ stmts[cache[q]].cads = 0

\* A statement that had been cached is closed and gone from the map, and a
\* later statement of the same query text is cached, unclosed.
C27_Witness ==
    \E s \in hist.handed, q \in Queries :
        /\ stmts[s].query = q /\ stmts[s].closes = 1
        /\ cache[q] # None /\ cache[q] # s
        /\ stmts[cache[q]].once = "idle"

\* ------------------------------------------------ a failed Beginx (SpecTx)

\* C28: when d.root.Beginx() fails, WrapTx returns that error, the work
\* function is not invoked, and neither Commit nor Rollback is called.
C28_BeginErrorReturned ==
    \A t \in TxCallers :
        tx[t].beginRes \notin {"none", Nil} =>
            /\ tx[t].pc = "done"
            /\ tx[t].out = <<"return", tx[t].beginRes>>
            /\ tx[t].works = 0 /\ tx[t].workRes = "none"
            /\ tx[t].commits = 0 /\ tx[t].rollbacks = 0
            /\ ~tx[t].once

\* One invocation's Beginx failed and it returned the error, while another
\* invocation is inside its transaction.
C28_Witness ==
    \E t, u \in TxCallers :
        /\ tx[t].beginRes = "e2" /\ tx[t].out = <<"return", "e2">> /\ tx[t].works = 0
        /\ tx[u].begun /\ tx[u].pc = "commit"

\* ------------------------------------------ Upgrade's script indices (SpecOpen)

\* C29: for every version v that initDB read and that passed the version
\* check (v <= N, negative values included), Upgrade reads only the script
\* indices 0..N-1, never one outside the script list, and returns either
\* (N, nil) or (-1, the failing script's error).
C29_UpgradeIndicesInRange ==
    LET N == open.latest
        v == open.userVersion
        passed == /\ \E j \in 1..Len(open.steps) : open.steps[j] = "getUserVersion"
                  /\ "getUserVersion" \notin open.faults
                  /\ ~VersionTooHigh(v, N)
    IN  passed =>
           /\ open.panicking # "index out of range"
           /\ \A j \in 1..Len(open.executed) : open.executed[j] \in 0..(N - 1)
           /\ (\E j \in 1..Len(open.steps) : open.steps[j] = "setUserVersion") =>
                 (open.newVersion = N /\ "exec" \notin open.faults)
           /\ "exec" \in open.faults =>
                 (open.newVersion = -1 /\ open.scriptErr # Nil /\ open.err = open.scriptErr)

====
